---------------------------- MODULE Spec2Model ----------------------------
(***************************************************************************)
(* A model of num-bigint's random generation layer (src/src/bigrand.rs)   *)
(* and of its Montgomery modular exponentiation (src/src/monty.rs).       *)
(*                                                                         *)
(* Big integers are modelled by their value; wherever the code touches    *)
(* the digit vector (`.data`, `new_native`, the work buffer of            *)
(* monty_redc, the buffer gen_bits fills) the model converts to and from  *)
(* little-endian digit sequences.  The word width is scaled down from 32  *)
(* bits to WordBits bits; a native digit is one word in the default       *)
(* build and two words under the `u64_digit` feature.                     *)
(***************************************************************************)
EXTENDS Integers, Sequences, FiniteSets, TLC

(***************************************************************************)
(* Bounds of the model.                                                   *)
(***************************************************************************)
\* Width of the u32 word gen_bits fills (32 in the code), scaled down.
WordBits == 3
\* Largest bit size handed to gen_biguint / gen_bigint.
MaxBits == 7
\* Bounds and range ends of the samplers lie in -MaxRange .. MaxRange.
MaxRange == 5
\* The count of words drawn from the random source saturates here.
MaxDrawn == 4
\* Moduli 0 .. MaxModulus are handed to monty_modpow (plus the RSA example).
MaxModulus == 19
\* Exponents 0 .. MaxExp are handed to monty_modpow (plus the RSA example).
MaxExp == 6
\* Odd moduli up to MaxRedcModulus are handed to monty_redc with every input.
MaxRedcModulus == 9
\* Largest bit size handed to gen_bigint when termination is checked.
MaxFairBits == 4

(***************************************************************************)
(* Arithmetic helpers standing for the primitive integer operations.      *)
(***************************************************************************)
Pow2(k) == 2 ^ k

Min(x, y) == IF x < y THEN x ELSE y

Abs(x) == IF x < 0 THEN 0 - x ELSE x

\* Integer::div_rem / Rust's `/` and `%` on signed integers: truncation
\* towards zero, the remainder taking the sign of the dividend.
TruncDiv(x, y) ==
    IF (x >= 0) = (y > 0) THEN Abs(x) \div Abs(y) ELSE 0 - (Abs(x) \div Abs(y))

TruncRem(x, y) == x - y * TruncDiv(x, y)

\* Integer::div_ceil on usize.
DivCeil(x, y) == (x + y - 1) \div y

\* BigUint::bits: the number of significant bits, 0 for zero.
RECURSIVE Bits(_)
Bits(v) == IF v = 0 THEN 0 ELSE 1 + Bits(v \div 2)

\* Width in bits of a native digit (BigDigit): u32, or u64 under `u64_digit`.
DigitBits(u64) == IF u64 THEN 2 * WordBits ELSE WordBits

\* The digit base beta = 2^W of the build.
Beta(u64) == Pow2(DigitBits(u64))

\* Value of a little-endian sequence of digits of width w bits: what
\* BigUint::new_native makes of its vector (trailing zeros do not count).
RECURSIVE SeqValue(_, _)
SeqValue(s, w) ==
    IF s = << >> THEN 0 ELSE Head(s) + Pow2(w) * SeqValue(Tail(s), w)

\* The canonical digit vector (`.data`) of a value: little-endian, no
\* most-significant zero digit, empty for zero.
RECURSIVE ToDigits(_, _)
ToDigits(v, w) ==
    IF v = 0 THEN << >> ELSE <<v % Pow2(w)>> \o ToDigits(v \div Pow2(w), w)

Zeros(k) == [j \in 1..k |-> 0]

(***************************************************************************)
(* bigrand.rs: gen_bits and gen_biguint.                                  *)
(***************************************************************************)
\* Every content rng.fill can write into a slice of len u32 words.
Fills(len) == [1..len -> 0..(Pow2(WordBits) - 1)]

\* Number of u32 words gen_biguint hands to gen_bits.
FillLen(bit_size) ==
    (bit_size \div WordBits) + (IF bit_size % WordBits > 0 THEN 1 ELSE 0)

\* Mutant: the excess bits are shifted by rem instead of 32 - rem.
GenBitsShiftRem(fill, rem) ==
    IF rem > 0
    THEN [fill EXCEPT ![Len(fill)] = fill[Len(fill)] \div Pow2(rem)]
    ELSE fill

\* gen_bits: the slice after rng.fill wrote `fill` into it and the last
\* word was shifted right by 32 - rem.
GenBits(fill, rem) ==
    IF rem > 0
    THEN [fill EXCEPT ![Len(fill)] = fill[Len(fill)] \div Pow2(WordBits - rem)]
    ELSE fill

\* Number of native digits gen_biguint allocates.
AllocDigits(bit_size, u64) ==
    IF u64 THEN DivCeil(bit_size, 2 * WordBits) ELSE FillLen(bit_size)

\* The u64 digit vector read back after the u32 slice laid over its first
\* len words holds `cells` (address order); words past len stay zero.
\* On a little-endian target the word at the lower address is the low half.
CellsToDigits(cells, native_digits, big_endian) ==
    LET cell(j) == IF j <= Len(cells) THEN cells[j] ELSE 0
    IN  [d \in 1..native_digits |->
            IF big_endian
            THEN cell(2 * d - 1) * Pow2(WordBits) + cell(2 * d)
            ELSE cell(2 * d - 1) + cell(2 * d) * Pow2(WordBits)]

\* `(*digit << 32) | (*digit >> 32)` on a u64 digit.
SwapHalves(digit) ==
    ((digit * Pow2(WordBits)) % Pow2(2 * WordBits)) + (digit \div Pow2(WordBits))

\* gen_biguint: the native digit vector handed to BigUint::new_native when
\* the random source writes `fill`.
GenBiguintData(bit_size, fill, u64, big_endian) ==
    LET rem == bit_size % WordBits
        cells == GenBits(fill, rem)
    IN  IF ~u64
        THEN cells
        ELSE LET data == CellsToDigits(cells, AllocDigits(bit_size, TRUE), big_endian)
             IN  IF big_endian
                 THEN [d \in 1..Len(data) |-> SwapHalves(data[d])]
                 ELSE data

\* gen_biguint: the value returned.
GenBiguint(bit_size, fill, u64, big_endian) ==
    SeqValue(GenBiguintData(bit_size, fill, u64, big_endian), DigitBits(u64))


(***************************************************************************)
(* State.                                                                  *)
(***************************************************************************)
VARIABLES
    op,          \* the entry point that was called
    pc,          \* where the call stands: "call", "loop", "ready", "done", "panic"
    u64_digit,   \* the build: feature `u64_digit`
    big_endian,  \* the build: target_endian = "big"
    \* ---- bigrand.rs
    bit_size,    \* argument of gen_biguint / gen_bigint
    lbound,      \* argument lbound / low
    ubound,      \* argument ubound / high / bound
    bound,       \* the bound gen_biguint_below is running with
    offset,      \* the value the caller adds to gen_biguint_below's result
    path,        \* the branch of the caller that reached gen_biguint_below
    sampler,     \* the UniformBigUint / UniformBigInt under use: base and len
    sign,        \* Sign of the BigInt gen_bigint returned
    alloc,       \* number of native digits gen_biguint allocated
    drawn,       \* words drawn from the random source so far (saturating)
    ret,         \* << >> until the call returns, then <<value>>
    \* ---- monty.rs: monty_modpow
    arg_a,       \* argument a
    exp,         \* argument exp
    modulus,     \* argument modulus / mr.n
    n0inv,       \* mr.n0inv
    r,           \* the Montgomery parameter
    apri,
    ans,
    e,
    iter,        \* iterations of the exponentiation loop so far
    redcArgs,    \* the inputs handed to monty_redc by the last step
    entered,     \* times the base was mapped into the Montgomery domain
    left,        \* times a result was mapped back out of it
    \* ---- monty.rs: monty_redc, step by step
    redc_in,     \* argument a of monty_redc
    c,           \* the work buffer
    i,           \* the loop index
    overflow,    \* a carry left the end of the work buffer
    \* ---- monty.rs: inv_mod, step by step
    num,         \* argument num
    a, b, u, w   \* the locals of the extended GCD

buildVars == <<u64_digit, big_endian>>
randVars  == <<bit_size, lbound, ubound, bound, offset, path, sampler, sign,
               alloc, drawn>>
modpowVars == <<arg_a, exp, modulus, n0inv, r, apri, ans, e, iter, redcArgs,
                entered, left>>
redcVars  == <<redc_in, c, i, overflow>>
invVars   == <<num, a, b, u, w>>
vars == <<op, pc, ret, buildVars, randVars, modpowVars, redcVars, invVars>>

UniformOps == {"UniformBigUint::new", "UniformBigUint::new_inclusive",
               "UniformBigInt::new", "UniformBigInt::new_inclusive"}
UnsignedOps == {"gen_biguint_range", "UniformBigUint::new",
                "UniformBigUint::new_inclusive"}
SignedOps == {"gen_bigint_range", "UniformBigInt::new",
              "UniformBigInt::new_inclusive"}
RandOps == {"gen_biguint", "gen_bigint", "gen_biguint_below"}
               \cup UnsignedOps \cup SignedOps

\* The builds: the default one, and `u64_digit` on either endianness.
Builds == {<<FALSE, FALSE>>, <<TRUE, FALSE>>, <<TRUE, TRUE>>}

\* The parts of the state a call does not use.
RandIdle ==
    /\ bit_size = 0 /\ lbound = 0 /\ ubound = 0
    /\ bound = 0 /\ offset = 0 /\ path = "none"
    /\ sampler = [base |-> 0, len |-> 0]
    /\ sign = "none" /\ alloc = 0 /\ drawn = 0

ModpowIdle ==
    /\ arg_a = 0 /\ exp = 0 /\ n0inv = 0 /\ r = 0 /\ apri = 0 /\ ans = 0
    /\ e = 0 /\ iter = 0 /\ redcArgs = {} /\ entered = 0 /\ left = 0

RedcIdle == redc_in = 0 /\ c = << >> /\ i = 0 /\ overflow = FALSE

InvIdle == num = 0 /\ a = 0 /\ b = 0 /\ u = 0 /\ w = 0

\* The (lbound, ubound) or (low, high) handed to a ranged sampler, and the
\* bound handed to gen_biguint_below (as ubound).
RangeInputs(f) ==
    IF f \in UnsignedOps
    THEN ((0..MaxRange) \X (0..MaxRange)) \cup {<<5, 5>>, <<10, 10>>, <<7, 3>>}
    ELSE IF f \in SignedOps
    THEN (((0 - MaxRange)..MaxRange) \X ((0 - MaxRange)..MaxRange))
             \cup {<<5, 5>>, <<10, 10>>, <<7, 3>>}
    ELSE IF f = "gen_biguint_below"
    THEN {0} \X (0..(2 * MaxRange))
    ELSE {<<0, 0>>}

\* A call into the random generation layer, about to run.
InitRand ==
    /\ op \in RandOps
    /\ pc = "call" /\ ret = << >>
    /\ \E build \in Builds : u64_digit = build[1] /\ big_endian = build[2]
    /\ bit_size \in (IF op \in {"gen_biguint", "gen_bigint"} THEN 0..MaxBits ELSE {0})
    /\ \E range \in RangeInputs(op) : lbound = range[1] /\ ubound = range[2]
    /\ bound = 0 /\ offset = 0 /\ path = "none"
    /\ sampler = [base |-> 0, len |-> 0]
    /\ sign = "none" /\ alloc = 0 /\ drawn = 0
    /\ modulus = 0 /\ ModpowIdle /\ RedcIdle /\ InvIdle

\* Count `words` more words drawn from the random source.
Draw(words) == drawn' = Min(drawn + words, MaxDrawn)

(***************************************************************************)
(* bigrand.rs: the samplers.                                              *)
(***************************************************************************)
\* gen_biguint, called directly.
GenBiguintCall ==
    /\ op = "gen_biguint" /\ pc = "call"
    /\ \E fill \in Fills(FillLen(bit_size)) :
          /\ ret' = <<GenBiguint(bit_size, fill, u64_digit, big_endian)>>
          /\ alloc' = Len(GenBiguintData(bit_size, fill, u64_digit, big_endian))
          /\ Draw(Len(fill))
    /\ pc' = "done"
    /\ UNCHANGED <<op, buildVars, bit_size, lbound, ubound, bound, offset,
                   path, sampler, sign, modpowVars, redcVars, invVars>>

\* Mutant: the zero magnitude is never retried.
SignOfNoRetry(biguint, coin) ==
    IF biguint = 0 THEN "NoSign" ELSE IF coin THEN "Plus" ELSE "Minus"

\* Mutant: a zero magnitude is retried whatever the coin shows.
SignOfAlwaysRetry(biguint, coin) ==
    IF biguint = 0 THEN "continue" ELSE IF coin THEN "Plus" ELSE "Minus"

\* gen_bigint: the sign one round of the loop picks for magnitude `biguint`
\* when self.gen() yields `coin`, or "continue" when the round is retried.
SignOf(biguint, coin) ==
    IF biguint = 0
    THEN (IF coin THEN "continue" ELSE "NoSign")
    ELSE IF coin THEN "Plus" ELSE "Minus"

\* The value of BigInt::from_biguint(sign, biguint).
FromBiguint(sgn, biguint) == IF sgn = "Minus" THEN 0 - biguint ELSE biguint

\* gen_bigint: one round of its loop (a magnitude, then one coin).
GenBigintRound ==
    /\ op = "gen_bigint" /\ pc = "call"
    /\ \E fill \in Fills(FillLen(bit_size)), coin \in BOOLEAN :
          LET biguint == GenBiguint(bit_size, fill, u64_digit, big_endian)
              sgn == SignOf(biguint, coin)
          IN  /\ Draw(Len(fill) + 1)
              /\ IF sgn = "continue"
                 THEN UNCHANGED <<pc, ret, sign>>
                 ELSE /\ pc' = "done"
                      /\ sign' = sgn
                      /\ ret' = <<FromBiguint(sgn, biguint)>>
    /\ UNCHANGED <<op, buildVars, bit_size, lbound, ubound, bound, offset,
                   path, sampler, alloc, modpowVars, redcVars, invVars>>

\* Mutant: the assertion of gen_biguint_below is missing.
BelowAssertMissing(bnd) == TRUE

\* gen_biguint_below: assert!(!bound.is_zero()).
BelowAssert(bnd) == bnd # 0

\* Entry of gen_biguint_below(bnd) from the branch `case` of a caller that
\* adds `off` to what it returns: the assertion, then the head of the loop.
EnterBelow(bnd, off, case) ==
    IF BelowAssert(bnd)
    THEN /\ pc' = "loop"
         /\ bound' = bnd /\ offset' = off /\ path' = case
    ELSE /\ pc' = "panic"
         /\ UNCHANGED <<bound, offset, path>>

\* assert!(*lbound < *ubound), and assert!(low < high) of the samplers.
RangeAssert(low, high) == low < high

\* gen_biguint_below, called directly.
GenBiguintBelowCall ==
    /\ op = "gen_biguint_below" /\ pc = "call"
    /\ EnterBelow(ubound, 0, "below")
    /\ UNCHANGED <<op, ret, buildVars, bit_size, lbound, ubound, sampler, sign,
                   alloc, drawn, modpowVars, redcVars, invVars>>

\* gen_biguint_range, up to the loop of gen_biguint_below.
GenBiguintRangeCall ==
    /\ op = "gen_biguint_range" /\ pc = "call"
    /\ IF ~RangeAssert(lbound, ubound)
       THEN pc' = "panic" /\ UNCHANGED <<bound, offset, path>>
       ELSE IF lbound = 0
       THEN EnterBelow(ubound, 0, "lo_zero")
       ELSE EnterBelow(ubound - lbound, lbound, "offset")
    /\ UNCHANGED <<op, ret, buildVars, bit_size, lbound, ubound, sampler, sign,
                   alloc, drawn, modpowVars, redcVars, invVars>>

\* gen_bigint_range, up to the loop of gen_biguint_below.
GenBigintRangeCall ==
    /\ op = "gen_bigint_range" /\ pc = "call"
    /\ IF ~RangeAssert(lbound, ubound)
       THEN pc' = "panic" /\ UNCHANGED <<bound, offset, path>>
       ELSE IF lbound = 0
       THEN EnterBelow(Abs(ubound), 0, "lo_zero")
       ELSE IF ubound = 0
       THEN EnterBelow(Abs(lbound), lbound, "hi_zero")
       ELSE EnterBelow(Abs(ubound - lbound), lbound, "delta")
    /\ UNCHANGED <<op, ret, buildVars, bit_size, lbound, ubound, sampler, sign,
                   alloc, drawn, modpowVars, redcVars, invVars>>

\* Mutant: len is the upper end, not the span.
UniformNewLenHigh(low, high) == [base |-> low, len |-> Abs(high)]

\* UniformBigUint::new / UniformBigInt::new past the assertion: the sampler.
UniformNew(low, high) == [base |-> low, len |-> Abs(high - low)]

\* new(low, high) and new_inclusive(low, high) of both samplers.
UniformConstruct ==
    /\ op \in UniformOps /\ pc = "call"
    /\ LET inclusive == op \in {"UniformBigUint::new_inclusive",
                                "UniformBigInt::new_inclusive"}
           high == IF inclusive THEN ubound + 1 ELSE ubound
       IN  IF (inclusive /\ ~(lbound <= ubound)) \/ ~RangeAssert(lbound, high)
           THEN pc' = "panic" /\ UNCHANGED sampler
           ELSE pc' = "ready" /\ sampler' = UniformNew(lbound, high)
    /\ UNCHANGED <<op, ret, buildVars, bit_size, lbound, ubound, bound, offset,
                   path, sign, alloc, drawn, modpowVars, redcVars, invVars>>

\* sample(&self, rng), up to the loop of gen_biguint_below.
UniformSample ==
    /\ op \in UniformOps /\ pc = "ready"
    /\ EnterBelow(sampler.len, sampler.base, "sample")
    /\ UNCHANGED <<op, ret, buildVars, bit_size, lbound, ubound, sampler, sign,
                   alloc, drawn, modpowVars, redcVars, invVars>>

\* Mutant: the candidate is accepted when it equals the bound too.
AcceptsLe(n, bnd) == n <= bnd

\* gen_biguint_below: `if n < *bound { return n; }`.
Accepts(n, bnd) == n < bnd

\* What the caller makes of the n gen_biguint_below returned.
Finish(case, off, n) ==
    IF case \in {"below", "lo_zero"} THEN n ELSE off + n

\* gen_biguint_below: one iteration of its loop, and on acceptance the
\* caller's addition and return.
BelowLoop ==
    /\ pc = "loop"
    /\ \E fill \in Fills(FillLen(Bits(bound))) :
          LET n == GenBiguint(Bits(bound), fill, u64_digit, big_endian)
          IN  /\ Draw(Len(fill))
              /\ IF Accepts(n, bound)
                 THEN /\ ret' = <<Finish(path, offset, n)>>
                      /\ pc' = IF op \in UniformOps THEN "ready" ELSE "done"
                 ELSE UNCHANGED <<pc, ret>>
    /\ UNCHANGED <<op, buildVars, bit_size, lbound, ubound, bound, offset,
                   path, sampler, sign, alloc, modpowVars, redcVars, invVars>>

(***************************************************************************)
(* monty.rs: inv_mod.                                                     *)
(***************************************************************************)
\* The locals of inv_mod before its loop: a = num and b = 2^W, both as
\* SignedDoubleBigDigit, u = 1, w = 0.
InvModInit(n, u64) ==
    [a |-> n, b |-> (Beta(u64) - 1) + 1, u |-> 1, w |-> 0]

\* Mutant: the coefficient recurrence adds q*w instead of subtracting it.
InvModStepPlus(st) ==
    LET q == TruncDiv(st.a, st.b)
        rm == TruncRem(st.a, st.b)
    IN  [a |-> st.b, b |-> rm, u |-> st.w, w |-> st.u + st.w * q]

\* One iteration of `while b != 0`.
InvModStep(st) ==
    LET q == TruncDiv(st.a, st.b)
        rm == TruncRem(st.a, st.b)
        m == st.u - st.w * q
    IN  [a |-> st.b, b |-> rm, u |-> st.w, w |-> m]

\* The locals when the loop ends.
RECURSIVE InvModRun(_)
InvModRun(st) == IF st.b # 0 THEN InvModRun(InvModStep(st)) ELSE st

\* assert!(num % 2 != 0).
InvModAssert(n) == n % 2 # 0

\* `u as BigDigit`: the low W bits, two's complement for a negative u.
AsBigDigit(x, u64) == x % Beta(u64)

\* inv_mod(n) fails one of its two assertions.
InvModPanics(n, u64) ==
    ~InvModAssert(n) \/ InvModRun(InvModInit(n, u64)).a # 1

\* inv_mod(n), when it returns.
InvMod(n, u64) == AsBigDigit(InvModRun(InvModInit(n, u64)).u, u64)

(***************************************************************************)
(* monty.rs: monty_redc, monty_mult, monty_sqr.                           *)
(***************************************************************************)
\* Vec::resize(len, 0): cut, or extended with zeros.
Resize(s, len) ==
    [j \in 1..len |-> IF j <= Len(s) THEN s[j] ELSE 0]

\* algorithms::mac_digit(&mut acc[from..], bd, q): acc += bd * q shifted by
\* `from` digits, the carry running on through the rest of the buffer.
\* buf is the buffer afterwards, carry what is left over at its end.
RECURSIVE MacLoop(_, _, _, _, _, _, _)
MacLoop(acc, pos, bd, j, q, carry, wd) ==
    IF j <= Len(bd) /\ pos <= Len(acc)
    THEN LET t == acc[pos] + bd[j] * q + carry
         IN  MacLoop([acc EXCEPT ![pos] = t % Pow2(wd)], pos + 1, bd, j + 1, q,
                     t \div Pow2(wd), wd)
    ELSE IF carry # 0 /\ pos <= Len(acc)
    THEN LET t == acc[pos] + carry
         IN  MacLoop([acc EXCEPT ![pos] = t % Pow2(wd)], pos + 1, bd, j, q,
                     t \div Pow2(wd), wd)
    ELSE [buf |-> acc, carry |-> carry]

MacDigit(acc, from, bd, q, wd) == MacLoop(acc, from + 1, bd, 1, q, 0, wd)

\* Mutant: mu is n0inv itself, not its negation.
MuNotNegated(inv, u64) == inv

\* mu <- -N^(-1) mod beta: (0 as BigDigit).wrapping_sub(mr.n0inv).
Mu(inv, u64) == (0 - inv) % Beta(u64)

\* q_i <- mu * c_i mod beta: c[i].wrapping_mul(mu).
Qi(ci, mu, u64) == (ci * mu) % Beta(u64)

\* One iteration of the loop of monty_redc, at index ix (from 0).
RedcStep(buf, ix, n, inv, u64) ==
    MacDigit(buf, ix, ToDigits(n, DigitBits(u64)),
             Qi(buf[ix + 1], Mu(inv, u64), u64), DigitBits(u64))

\* The work buffer after iterations ix .. n_size - 1.
RECURSIVE RedcRun(_, _, _, _, _)
RedcRun(buf, ix, n, inv, u64) ==
    IF ix < Len(ToDigits(n, DigitBits(u64)))
    THEN RedcRun(RedcStep(buf, ix, n, inv, u64).buf, ix + 1, n, inv, u64)
    ELSE buf

\* The work buffer monty_redc starts from: a.data resized to 2 * n_size + 2.
RedcBuffer(x, n, u64) ==
    Resize(ToDigits(x, DigitBits(u64)),
           2 * Len(ToDigits(n, DigitBits(u64))) + 2)

\* R <- C * beta^(-n): BigUint::new_native(c[n_size..].to_vec()).
RedcCandidate(buf, n, u64) ==
    SeqValue(SubSeq(buf, Len(ToDigits(n, DigitBits(u64))) + 1, Len(buf)),
             DigitBits(u64))

\* Mutant: the conditional subtraction is missing.
RedcReturnNoSub(cand, n) == cand

\* `if &ret < mr.n { ret } else { ret - mr.n }`.
RedcReturn(cand, n) == IF cand < n THEN cand ELSE cand - n

\* monty_redc(x, mr) for mr = {n, inv}.
MontyRedc(x, n, inv, u64) ==
    RedcReturn(RedcCandidate(RedcRun(RedcBuffer(x, n, u64), 0, n, inv, u64),
                             n, u64), n)

MontyMult(x, y, n, inv, u64) == MontyRedc(x * y, n, inv, u64)

MontySqr(x, n, inv, u64) == MontyRedc(x * x, n, inv, u64)

(***************************************************************************)
(* monty.rs: monty_modpow.                                                *)
(***************************************************************************)
\* BigUint::new: the value of a little-endian vector of digits.
BigUintNew(v, u64) == SeqValue(v, DigitBits(u64))

\* Mutant: the vector holds one zero too few.
RadixVectorShort(n, u64) ==
    Zeros(Len(ToDigits(n, DigitBits(u64))) - 1) \o <<1>>

\* `let mut v = vec![0; modulus.data.len()]; v.push(1);`
RadixVector(n, u64) == Zeros(Len(ToDigits(n, DigitBits(u64)))) \o <<1>>

\* MontyReducer::new(n) fails: n.data[0] does not exist, or inv_mod fails.
ReducerPanics(n, u64) ==
    \/ ToDigits(n, DigitBits(u64)) = << >>
    \/ InvModPanics(ToDigits(n, DigitBits(u64))[1], u64)

\* MontyReducer::new(n).n0inv.
ReducerN0inv(n, u64) == InvMod(ToDigits(n, DigitBits(u64))[1], u64)

\* The inputs of a call to monty_modpow.
ModpowInputs ==
    {<<x, y, n>> \in (0..MaxModulus) \X (0..MaxExp) \X (0..MaxModulus) :
        x < n \/ (x = 0 /\ n = 0)}
    \cup {<<4, 13, 497>>}

InitModpow ==
    /\ op = "monty_modpow"
    /\ pc = "call" /\ ret = << >>
    /\ u64_digit \in BOOLEAN /\ big_endian = FALSE
    /\ \E in \in ModpowInputs :
          arg_a = in[1] /\ exp = in[2] /\ modulus = in[3]
    /\ n0inv = 0 /\ r = 0 /\ apri = 0 /\ ans = 0
    /\ e = 0 /\ iter = 0 /\ redcArgs = {} /\ entered = 0 /\ left = 0
    /\ RandIdle /\ RedcIdle /\ InvIdle

\* monty_modpow up to the head of its loop.
ModpowEnter ==
    /\ op = "monty_modpow" /\ pc = "call"
    /\ IF ReducerPanics(modulus, u64_digit)
       THEN /\ pc' = "panic"
            /\ UNCHANGED <<n0inv, r, apri, ans, e, entered>>
       ELSE LET radix == BigUintNew(RadixVector(modulus, u64_digit), u64_digit)
            IN  /\ n0inv' = ReducerN0inv(modulus, u64_digit)
                /\ r' = radix
                /\ apri' = (arg_a * radix) % modulus
                /\ ans' = radix % modulus
                /\ e' = exp
                /\ entered' = entered + 1
                /\ pc' = "loop"
    /\ UNCHANGED <<op, ret, buildVars, randVars, arg_a, exp, modulus, iter,
                   redcArgs, left, redcVars, invVars>>

\* One iteration of `while !e.is_zero()`.
ModpowLoop ==
    /\ op = "monty_modpow" /\ pc = "loop"
    /\ e # 0
    /\ ans' = IF e % 2 = 1
              THEN MontyMult(ans, apri, modulus, n0inv, u64_digit)
              ELSE ans
    /\ apri' = MontySqr(apri, modulus, n0inv, u64_digit)
    /\ e' = e \div 2
    /\ iter' = iter + 1
    /\ redcArgs' = (IF e % 2 = 1 THEN {ans * apri} ELSE {}) \cup {apri * apri}
    /\ UNCHANGED <<op, pc, ret, buildVars, randVars, arg_a, exp, modulus,
                   n0inv, r, entered, left, redcVars, invVars>>

\* The loop has ended: the result is mapped back and returned.
ModpowExit ==
    /\ op = "monty_modpow" /\ pc = "loop"
    /\ e = 0
    /\ ret' = <<MontyRedc(ans, modulus, n0inv, u64_digit)>>
    /\ redcArgs' = {ans}
    /\ left' = left + 1
    /\ pc' = "done"
    /\ UNCHANGED <<op, buildVars, randVars, arg_a, exp, modulus, n0inv, r,
                   apri, ans, e, iter, entered, redcVars, invVars>>

(***************************************************************************)
(* monty_redc run step by step on its own.                                *)
(***************************************************************************)
\* beta^len(n) for the modulus n.
RadixOf(n, u64) == Pow2(DigitBits(u64) * Len(ToDigits(n, DigitBits(u64))))

\* The inputs of a call to monty_redc: every input below n * beta^len(n)
\* for the small odd moduli, and the ends of that range for the modulus of
\* the RSA example.
RedcInputs(u64) ==
    {<<x, n>> \in (0..(MaxRedcModulus * RadixOf(MaxRedcModulus, u64) - 1))
                      \X (1..MaxRedcModulus) :
        n % 2 = 1 /\ x < n * RadixOf(n, u64)}
    \cup {<<x, 497>> : x \in {0, 1, 496, 497, 496 * 496,
                              497 * RadixOf(497, u64) - 1}}

InitRedc ==
    /\ op = "monty_redc"
    /\ pc = "call" /\ ret = << >>
    /\ u64_digit \in BOOLEAN /\ big_endian = FALSE
    /\ \E in \in RedcInputs(u64_digit) :
          /\ redc_in = in[1] /\ modulus = in[2]
          /\ n0inv = ReducerN0inv(in[2], u64_digit)
    /\ c = << >> /\ i = 0 /\ overflow = FALSE
    /\ arg_a = 0 /\ exp = 0 /\ r = 0 /\ apri = 0 /\ ans = 0
    /\ e = 0 /\ iter = 0 /\ redcArgs = {} /\ entered = 0 /\ left = 0
    /\ RandIdle /\ InvIdle

\* monty_redc up to the head of its loop.
RedcEnter ==
    /\ op = "monty_redc" /\ pc = "call"
    /\ c' = RedcBuffer(redc_in, modulus, u64_digit)
    /\ i' = 0
    /\ pc' = "loop"
    /\ UNCHANGED <<op, ret, buildVars, randVars, modpowVars, redc_in, overflow,
                   invVars>>

\* One iteration of `for i in 0..n_size`.
RedcLoop ==
    /\ op = "monty_redc" /\ pc = "loop"
    /\ i < Len(ToDigits(modulus, DigitBits(u64_digit)))
    /\ LET step == RedcStep(c, i, modulus, n0inv, u64_digit)
       IN  /\ c' = step.buf
           /\ overflow' = (overflow \/ step.carry # 0)
    /\ i' = i + 1
    /\ UNCHANGED <<op, pc, ret, buildVars, randVars, modpowVars, redc_in,
                   invVars>>

\* The loop has ended: the candidate, and the conditional subtraction.
RedcExit ==
    /\ op = "monty_redc" /\ pc = "loop"
    /\ i = Len(ToDigits(modulus, DigitBits(u64_digit)))
    /\ ret' = <<RedcReturn(RedcCandidate(c, modulus, u64_digit), modulus)>>
    /\ pc' = "done"
    /\ UNCHANGED <<op, buildVars, randVars, modpowVars, redcVars, invVars>>

(***************************************************************************)
(* inv_mod run step by step on its own.                                   *)
(***************************************************************************)
InitInv ==
    /\ op = "inv_mod"
    /\ pc = "call" /\ ret = << >>
    /\ u64_digit \in BOOLEAN /\ big_endian = FALSE
    /\ num \in 0..(Beta(u64_digit) - 1)
    /\ a = 0 /\ b = 0 /\ u = 0 /\ w = 0
    /\ modulus = 0 /\ ModpowIdle /\ RandIdle /\ RedcIdle

\* inv_mod up to the head of its loop.
InvModEnter ==
    /\ op = "inv_mod" /\ pc = "call"
    /\ IF InvModAssert(num)
       THEN LET st == InvModInit(num, u64_digit)
            IN  a' = st.a /\ b' = st.b /\ u' = st.u /\ w' = st.w /\ pc' = "loop"
       ELSE pc' = "panic" /\ UNCHANGED <<a, b, u, w>>
    /\ UNCHANGED <<op, ret, buildVars, randVars, modpowVars, redcVars, num>>

\* One iteration of `while b != 0`.
InvModLoop ==
    /\ op = "inv_mod" /\ pc = "loop"
    /\ b # 0
    /\ LET st == InvModStep([a |-> a, b |-> b, u |-> u, w |-> w])
       IN  a' = st.a /\ b' = st.b /\ u' = st.u /\ w' = st.w
    /\ UNCHANGED <<op, pc, ret, buildVars, randVars, modpowVars, redcVars, num>>

\* The loop has ended: assert!(a == 1), and the downcast.
InvModExit ==
    /\ op = "inv_mod" /\ pc = "loop"
    /\ b = 0
    /\ IF a = 1
       THEN ret' = <<AsBigDigit(u, u64_digit)>> /\ pc' = "done"
       ELSE pc' = "panic" /\ UNCHANGED ret
    /\ UNCHANGED <<op, buildVars, randVars, modpowVars, redcVars, invVars>>

(***************************************************************************)
(* The specifications.                                                    *)
(***************************************************************************)
Init == InitRand \/ InitModpow \/ InitRedc \/ InitInv

Next ==
    \/ GenBiguintCall
    \/ GenBigintRound
    \/ GenBiguintBelowCall
    \/ GenBiguintRangeCall
    \/ GenBigintRangeCall
    \/ UniformConstruct
    \/ UniformSample
    \/ BelowLoop
    \/ ModpowEnter
    \/ ModpowLoop
    \/ ModpowExit
    \/ RedcEnter
    \/ RedcLoop
    \/ RedcExit
    \/ InvModEnter
    \/ InvModLoop
    \/ InvModExit

Spec == Init /\ [][Next]_vars

(***************************************************************************)
(* Reference definitions used by the properties.                          *)
(***************************************************************************)
\* x^k mod n by repeated multiply-and-reduce.
RECURSIVE PowMod(_, _, _)
PowMod(x, k, n) == IF k = 0 THEN 1 % n ELSE (PowMod(x, k - 1, n) * x) % n

Returned == ret # << >>

\* The digit width and base of the build under check.
W == DigitBits(u64_digit)
BetaW == Beta(u64_digit)

\* len(n) of the modulus under check, in native digits.
NSize == Len(ToDigits(modulus, W))

(***************************************************************************)
(* C1: for an odd modulus n >= 1, a base a < n and any exponent e,        *)
(* monty_modpow(a, e, n) returns a^e mod n as repeated multiply-and-      *)
(* reduce computes it; it is 1 mod n for e = 0, 0 for a = 0 and e > 0,    *)
(* and monty_modpow(4, 13, 497) = 445.                                    *)
(***************************************************************************)
C1_ModpowCorrect ==
    (op = "monty_modpow" /\ modulus % 2 = 1 /\ arg_a < modulus) =>
        /\ pc # "panic"
        /\ pc = "done" =>
              /\ ret = <<PowMod(arg_a, exp, modulus)>>
              /\ exp = 0 => ret = <<1 % modulus>>
              /\ (exp = 0 /\ modulus = 1) => ret = <<0>>
              /\ (arg_a = 0 /\ exp > 0) => ret = <<0>>
              /\ (arg_a = 4 /\ exp = 13 /\ modulus = 497) => ret = <<445>>

C1_Witness ==
    /\ op = "monty_modpow" /\ pc = "done"
    /\ arg_a = 4 /\ exp = 13 /\ modulus = 497 /\ ret = <<445>>
    /\ NSize >= 2

\* x is a value of SignedDoubleBigDigit (2W bits, signed).
InSignedDouble(x) == (0 - Pow2(2 * W - 1)) <= x /\ x < Pow2(2 * W - 1)

\* What holds of inv_mod's locals and of its result in every state.
C2_InvModState ==
    (op = "inv_mod" /\ num % 2 = 1) =>
        /\ pc # "panic"
        /\ pc \in {"loop", "done"} =>
              /\ InSignedDouble(a) /\ InSignedDouble(b)
              /\ InSignedDouble(u) /\ InSignedDouble(w)
              /\ b >= 0
        /\ pc = "done" =>
              /\ a = 1
              /\ ret = <<u % BetaW>>
              /\ 0 <= ret[1] /\ ret[1] < BetaW
              /\ (ret[1] * num) % BetaW = 1
              /\ num = 3 =>
                    3 * ret[1] = (IF W % 2 = 0 THEN 2 * BetaW ELSE BetaW) + 1

(***************************************************************************)
(* C2: for every odd digit d, inv_mod(d) terminates (b strictly decreases *)
(* and stays non-negative), nothing leaves the SignedDoubleBigDigit       *)
(* range, the assertion a == 1 holds, and the digit returned is u         *)
(* truncated to W bits with (inv_mod(d) * d) mod 2^W = 1.  inv_mod(3) is  *)
(* (2^(W+1) + 1) / 3 for even W (2863311531 when W = 32) and              *)
(* (2^W + 1) / 3 for odd W.                                               *)
(***************************************************************************)
C2_InvModCorrect ==
    /\ []C2_InvModState
    /\ [][(op = "inv_mod" /\ pc = "loop" /\ pc' = "loop") => (0 <= b' /\ b' < b)]_vars

C2_Witness ==
    /\ op = "inv_mod" /\ pc = "done" /\ num = 3 /\ u < 0
    /\ ret = <<u + BetaW>>

(***************************************************************************)
(* C3: the bounded and ranged samplers return only values of their        *)
(* half-open interval, whatever the random source supplies:               *)
(* gen_biguint_below(bound) in [0, bound); gen_biguint_range(lo, hi) in   *)
(* [lo, hi), through gen_biguint_below(hi) when lo = 0;                   *)
(* gen_bigint_range(lo, hi) in [lo, hi) in each of its three cases.       *)
(***************************************************************************)
C3_SamplersInRange ==
    /\ (op = "gen_biguint_below" /\ ubound > 0) =>
          /\ pc # "panic"
          /\ Returned => (0 <= ret[1] /\ ret[1] < ubound)
    /\ (op \in {"gen_biguint_range", "gen_bigint_range"} /\ lbound < ubound) =>
          /\ pc # "panic"
          /\ Returned => (lbound <= ret[1] /\ ret[1] < ubound)
          /\ pc \in {"loop", "done"} =>
                /\ lbound = 0 => (path = "lo_zero" /\ bound = ubound)
                /\ (lbound # 0 /\ op = "gen_biguint_range") => path = "offset"
                /\ (lbound # 0 /\ ubound = 0) => path = "hi_zero"
                /\ (lbound # 0 /\ ubound # 0 /\ op = "gen_bigint_range") =>
                      path = "delta"

C3_Witness ==
    /\ op = "gen_bigint_range" /\ pc = "done" /\ path = "delta"
    /\ lbound < 0 /\ ubound > 0 /\ ret = <<ubound - 1>>
    /\ drawn = MaxDrawn

\* The call under way breaks the precondition of its entry point.
PreconditionViolated ==
    \/ op = "gen_biguint_below" /\ ubound = 0
    \/ op \in {"gen_biguint_range", "gen_bigint_range"} /\ lbound >= ubound
    \/ op = "inv_mod" /\ num % 2 = 0
    \/ op = "monty_modpow" /\ modulus % 2 = 0

(***************************************************************************)
(* C4: a violated precondition fails at the call and returns nothing:     *)
(* gen_biguint_below(0); gen_biguint_range and gen_bigint_range with      *)
(* lo >= hi; inv_mod of an even digit; monty_modpow with an even modulus, *)
(* which fails while the context is built, before any reduction.  In the  *)
(* sampling cases no word has been drawn from the random source.          *)
(***************************************************************************)
C4_PreconditionsFail ==
    PreconditionViolated =>
        /\ pc \in {"call", "panic"}
        /\ ~Returned
        /\ drawn = 0
        /\ iter = 0 /\ redcArgs = {} /\ entered = 0 /\ left = 0

C4_Witness ==
    /\ op = "gen_biguint_range" /\ lbound = 10 /\ ubound = 10 /\ pc = "panic"
    /\ PreconditionViolated /\ ~Returned /\ drawn = 0

\* The (magnitude, coin) pairs one round of gen_bigint(bits) can draw.
RoundPairs(bits) == (0..(Pow2(bits) - 1)) \X BOOLEAN

(***************************************************************************)
(* C5: one round of gen_bigint(bits) maps the 2^(bits+1) pairs            *)
(* (magnitude, coin) one-to-one onto the signed values of                 *)
(* (-2^bits, 2^bits), except for the single pair (0, retry) that restarts *)
(* the draw: the value returned lies in the range, exactly one pair       *)
(* produces it, exactly one pair retries, and the sign is NoSign if and   *)
(* only if the magnitude is 0.                                            *)
(***************************************************************************)
C5_BigintUniform ==
    (op = "gen_bigint" /\ pc = "done") =>
        /\ (0 - Pow2(bit_size)) < ret[1] /\ ret[1] < Pow2(bit_size)
        /\ Cardinality({p \in RoundPairs(bit_size) :
                           /\ SignOf(p[1], p[2]) # "continue"
                           /\ FromBiguint(SignOf(p[1], p[2]), p[1]) = ret[1]}) = 1
        /\ Cardinality({p \in RoundPairs(bit_size) :
                           SignOf(p[1], p[2]) = "continue"}) = 1
        /\ SignOf(0, TRUE) = "continue"
        /\ (sign = "NoSign") <=> (ret[1] = 0)
        /\ sign \in {"NoSign", "Plus", "Minus"}
        /\ (sign = "Minus") <=> (ret[1] < 0)

C5_Witness ==
    /\ op = "gen_bigint" /\ pc = "done" /\ bit_size = 0
    /\ ret = <<0>> /\ sign = "NoSign" /\ drawn > 1

(***************************************************************************)
(* C6: gen_biguint(b) allocates ceil(b / W) native digits and returns a   *)
(* value below 2^b; every value is produced by the same number of buffer  *)
(* fills (one fill when b is a multiple of the fill word, where nothing   *)
(* is shifted); b = 0 allocates nothing and returns 0.                    *)
(***************************************************************************)
C6_BiguintUniform ==
    (op = "gen_biguint" /\ pc = "done") =>
        /\ alloc = DivCeil(bit_size, W)
        /\ 0 <= ret[1] /\ ret[1] < Pow2(bit_size)
        /\ Cardinality({fill \in Fills(FillLen(bit_size)) :
                GenBiguint(bit_size, fill, u64_digit, big_endian) = ret[1]})
             = Pow2(FillLen(bit_size) * WordBits - bit_size)
        /\ bit_size % WordBits = 0 =>
              \A fill \in Fills(FillLen(bit_size)) :
                  GenBits(fill, bit_size % WordBits) = fill
        /\ bit_size = 0 => (alloc = 0 /\ ret = <<0>>)

C6_Witness ==
    /\ op = "gen_biguint" /\ pc = "done"
    /\ u64_digit /\ big_endian /\ alloc = 2
    /\ bit_size = 2 * WordBits + 1 /\ ret = <<Pow2(bit_size) - 1>>

\* The sampler under use was built by new_inclusive.
Inclusive == op \in {"UniformBigUint::new_inclusive", "UniformBigInt::new_inclusive"}

(***************************************************************************)
(* C7: sampling never changes a UniformBigUint / UniformBigInt: base and  *)
(* len stay those of its construction, and every value returned lies in   *)
(* [low, high) after new(low, high) with low < high, in [low, high] after *)
(* new_inclusive(low, high) with low <= high, which is                    *)
(* new(low, high + 1) and accepts low = high.                             *)
(***************************************************************************)
C7_SamplerFrame ==
    (op \in UniformOps /\ (IF Inclusive THEN lbound <= ubound ELSE lbound < ubound)) =>
        /\ pc # "panic"
        /\ pc # "call" =>
              /\ sampler.base = lbound
              /\ sampler.len = (IF Inclusive THEN ubound + 1 ELSE ubound) - lbound
        /\ Returned =>
              /\ lbound <= ret[1]
              /\ IF Inclusive THEN ret[1] <= ubound ELSE ret[1] < ubound

C7_Witness ==
    /\ op = "UniformBigInt::new_inclusive" /\ pc = "ready"
    /\ lbound = ubound /\ lbound < 0
    /\ ret = <<lbound>> /\ drawn = MaxDrawn
    /\ sampler = [base |-> lbound, len |-> 1]

C9_ModpowLoop ==
    (op = "monty_modpow" /\ modulus % 2 = 1 /\ arg_a < modulus) =>
        /\ pc \in {"loop", "done"} =>
              /\ r = RadixOf(modulus, u64_digit)
              /\ r = Pow2(W * NSize)
              /\ e = exp \div Pow2(iter)
              /\ apri = (PowMod(arg_a, Pow2(iter), modulus) * r) % modulus
              /\ ans = (PowMod(arg_a, exp % Pow2(iter), modulus) * r) % modulus
              /\ apri < modulus /\ ans < modulus
              /\ \A x \in redcArgs : x < modulus * RadixOf(modulus, u64_digit)
              /\ iter <= Bits(exp)
              /\ entered = 1
        /\ pc = "loop" => left = 0
        /\ pc = "done" => (iter = Bits(exp) /\ left = 1 /\ e = 0)

C9_Witness ==
    /\ op = "monty_modpow" /\ pc = "done"
    /\ arg_a = 4 /\ exp = 13 /\ modulus = 497
    /\ iter = 4 /\ entered = 1 /\ left = 1 /\ NSize = 3

\* At the head of the loop of gen_biguint_below at least half of the
\* buffer fills give an accepted candidate.
C10_HalfAccepted ==
    (op \in RandOps /\ pc = "loop") =>
        /\ bound >= Pow2(Bits(bound) - 1)
        /\ bound < Pow2(Bits(bound))
        /\ 2 * Cardinality({fill \in Fills(FillLen(Bits(bound))) :
                 Accepts(GenBiguint(Bits(bound), fill, u64_digit, big_endian), bound)})
              >= Cardinality(Fills(FillLen(Bits(bound))))

(***************************************************************************)
(* C10: the rejection loops end under fair random draws.  At least half   *)
(* of the candidates gen_biguint(bits) can produce are below the bound    *)
(* (bound >= 2^(bits-1)), so gen_biguint_below returns; gen_bigint        *)
(* retries only on (magnitude 0, retry coin), so it returns, for          *)
(* bits = 0 too.                                                          *)
(***************************************************************************)
C10_LoopsTerminate ==
    /\ []C10_HalfAccepted
    /\ ((op \in RandOps /\ pc = "loop") \/ (op = "gen_bigint" /\ pc = "call"))
          ~> (pc \in {"done", "ready"})

C10_Witness ==
    /\ op = "gen_biguint_below" /\ pc = "done"
    /\ ubound = Pow2(Bits(ubound) - 1) /\ ubound > 1
    /\ drawn = MaxDrawn

\* The calls that loop on the random source by themselves.
InitFair ==
    /\ InitRand
    /\ op \in {"gen_bigint", "gen_biguint_below"}
    /\ bit_size <= MaxFairBits

NextFair ==
    \/ GenBigintRound
    \/ GenBiguintBelowCall
    \/ BelowLoop

\* The random source is fair: an outcome that stays possible is not
\* withheld for ever, and a call that can proceed does.
FairSpec ==
    /\ InitFair
    /\ [][NextFair]_vars
    /\ WF_vars(GenBiguintBelowCall)
    /\ WF_vars(BelowLoop /\ pc' # "loop")
    /\ WF_vars(GenBigintRound /\ pc' = "done")

=============================================================================
